---- MODULE Spec2Model ----
(***************************************************************************)
(* Model of the two eye-tracker backends of openxr-api-layer:              *)
(*   Psvr2ToolkitEyeTracker (psvr2_toolkit.cpp), the device IPC feed, and  *)
(*   VRChatOSCEyeTracker    (vrchat_osc.cpp),    the network OSC feed.     *)
(* One tracker instance is modelled per behaviour; `kind` says which.      *)
(* Three threads act on it: the owner (constructor, start, stop,           *)
(* destructor), the background thread, and one consumer issuing            *)
(* isGazeAvailable / getGaze calls.                                        *)
(***************************************************************************)
EXTENDS Integers, Sequences, FiniteSets, TLC

(***************************************************************************)
(* Program constants.                                                      *)
(***************************************************************************)
ConnectRetries == 15
HandshakeRetries == 5
GazeRetries == 5
FreshnessTicks == 1000000000
IterationSleep == 5

(***************************************************************************)
(* Bounds of the model.                                                    *)
(***************************************************************************)
\* The clock is read at the points k*FreshnessTicks - 1 and k*FreshnessTicks
\* for k in 0..MaxWindows: two readings are one tick less than a window, a
\* whole window, or one tick more than a window apart.
MaxWindows == 1
\* The server stops answering when an answer would leave more than
\* MaxPending unread cells in the socket.
MaxPending == 3

(***************************************************************************)
(* Floats. A float is a NaN, an infinity or a finite value; Fin(n) stands  *)
(* for the finite value n/2, so that the average of two values of          *)
(* {-1, 0, 1} is represented exactly.                                      *)
(***************************************************************************)
NaN == [cls |-> "nan", v |-> 0]
PInf == [cls |-> "inf", v |-> 1]
NInf == [cls |-> "inf", v |-> -1]
Fin(n) == [cls |-> "fin", v |-> n]

isnan(f) == f.cls = "nan"

FNeg(a) ==
    IF a.cls = "nan" THEN NaN ELSE [cls |-> a.cls, v |-> 0 - a.v]

FAdd(a, b) ==
    IF a.cls = "nan" \/ b.cls = "nan" THEN NaN
    ELSE IF a.cls = "inf" /\ b.cls = "inf" THEN (IF a.v = b.v THEN a ELSE NaN)
    ELSE IF a.cls = "inf" THEN a
    ELSE IF b.cls = "inf" THEN b
    ELSE Fin(a.v + b.v)

FSub(a, b) == FAdd(a, FNeg(b))

Sign(n) == IF n > 0 THEN 1 ELSE IF n < 0 THEN -1 ELSE 0

\* a * b; Fin(m) * Fin(n) = (m/2)*(n/2) = Fin(m*n/2).
FMul(a, b) ==
    IF a.cls = "nan" \/ b.cls = "nan" THEN NaN
    ELSE IF a.cls = "inf" \/ b.cls = "inf"
         THEN (IF a.v = 0 \/ b.v = 0 THEN NaN
               ELSE IF Sign(a.v) = Sign(b.v) THEN PInf ELSE NInf)
    ELSE Fin((a.v * b.v) \div 2)

\* a / 2
FHalf(a) == IF a.cls = "fin" THEN Fin(a.v \div 2) ELSE a

\* SinDeg(a) = sin(a * M_PI / 180.0f), CosDeg(a) = cos(a * M_PI / 180.0f) for
\* an angle a in degrees (Fin(180) is 90 degrees): exact at 0, rounded to the
\* nearest model value at +-90 degrees; the scaling keeps NaN and the
\* infinities, where sin and cos give NaN.
SinDeg(a) ==
    IF a.cls # "fin" THEN NaN
    ELSE IF a.v = 180 THEN Fin(2)
    ELSE IF a.v = -180 THEN Fin(-2)
    ELSE Fin(0)

CosDeg(a) ==
    IF a.cls # "fin" THEN NaN
    ELSE IF a.v = 0 THEN Fin(2)
    ELSE Fin(0)

Vec(x, y, z) == [x |-> x, y |-> y, z |-> z]
ZeroVec == Vec(Fin(0), Fin(0), Fin(0))
VecHasNaN(g) == isnan(g.x) \/ isnan(g.y) \/ isnan(g.z)

(***************************************************************************)
(* The wire of the device feed. The stream is a sequence of cells; a       *)
(* message is a header cell followed by its payload cells. Every cell has  *)
(* the same shape, so that a buffer decodes whatever cells it was filled   *)
(* with.                                                                   *)
(***************************************************************************)
Cell(tag, valid, dir) == [tag |-> tag, valid |-> valid, dir |-> dir]
ZeroCell == Cell("zero", FALSE, ZeroVec)
HeaderCell(type) == Cell(type, FALSE, ZeroVec)
ResultCell(code) == Cell(code, FALSE, ZeroVec)
EyeCell(valid, dir) == Cell("eye", valid, dir)

\* sizeof(response) of the handshake: header + result payload.
HsRespSize == 2
\* sizeof(response) of a gaze reply: header + left eye + right eye.
GazeRespSize == 3

HandshakeResponses ==
    { <<HeaderCell(t), ResultCell(r)>> :
        t \in {"Command_ServerHandshakeResult", "Command_Other"},
        r \in {"HandshakeResult_Success", "HandshakeResult_Failed"} }

\* Eye directions the server reports.
DirA == Vec(Fin(2), Fin(0), Fin(-2))
DirB == Vec(Fin(-2), Fin(2), Fin(0))
DirPInf == Vec(PInf, Fin(0), Fin(2))
DirNInf == Vec(NInf, Fin(0), Fin(2))

GazeFrame(lv, l, rv, r) ==
    <<HeaderCell("Command_ServerGazeDataResult"), EyeCell(lv, l), EyeCell(rv, r)>>

\* A message of another type with the size of a gaze reply, whose payload
\* bytes read as two valid eye directions.
OtherFrame ==
    <<HeaderCell("Command_Other"), EyeCell(TRUE, DirA), EyeCell(TRUE, DirA)>>

\* What the server sends in answer to a gaze request.
GazeResponses ==
    { OtherFrame,
      GazeFrame(TRUE, DirA, TRUE, DirA),
      GazeFrame(TRUE, DirA, TRUE, DirB),
      GazeFrame(TRUE, DirPInf, TRUE, DirNInf),
      GazeFrame(FALSE, DirA, TRUE, DirA),
      GazeFrame(TRUE, DirB, FALSE, DirB) }

Take(s, n) == SubSeq(s, 1, n)
Drop(s, n) == SubSeq(s, n + 1, Len(s))
Min(a, b) == IF a < b THEN a ELSE b

\* buffer with the n cells of `got` written at offset `off`
Fill(buf, off, got) ==
    [i \in 1..Len(buf) |->
        IF i > off /\ i <= off + Len(got) THEN got[i - off] ELSE buf[i]]

(***************************************************************************)
(* The monotonic clock: the points at which it is read.                    *)
(***************************************************************************)
ClockPoints ==
    { k * FreshnessTicks + d : k \in 0..MaxWindows, d \in {-1, 0} } \cap Nat

VARIABLES
    kind,               \* "psvr2" or "osc": which tracker this instance is
    c_pc,               \* owner thread: position in constructor / lifetime / destructor
    connRetries,        \* constructor: `retries` of the connect loop
    connLog,            \* history: outcome of every connect() call
    hsSent,             \* history: the handshake request was sent
    hsRetries,          \* constructor: `retries` of the handshake receive loop
    hsOffset,           \* constructor: `offset`
    hsResponse,         \* constructor: `response`
    hsAttempts,         \* history: number of recv() calls of the handshake
    hsReply,            \* history: what the server answered to the handshake
    pending,            \* cells sent by the server and not yet read from m_socket
    m_started,
    m_socket,
    t_pc,               \* background thread (m_listeningThread)
    retries,            \* ipcThread: `retries`
    offset,             \* ipcThread: `offset`
    response,           \* ipcThread: `response`
    slept,              \* ipcThread: total Sleep() of the last finished iteration
    break_,             \* UdpListeningReceiveSocket: break flag
    breakEvent,         \* UdpListeningReceiveSocket: break event is signalled
    m_latestGaze,
    m_lastReceivedTime,
    clock,              \* last reading of high_resolution_clock
    q_fn,               \* consumer: function being called
    q_pc,               \* consumer: position in it
    q_now,              \* consumer: `now` of isGazeAvailable
    q_ret,              \* consumer: value returned
    unitVector,         \* consumer: the caller's output vector
    recVec,             \* history: vector of the most recent sample with no NaN
    recTime,            \* history: its timestamp
    nRecorded,          \* history: 0 or 1, whether there has been such a sample
    nReceived,          \* history: 0 or 1, whether the cache was ever written
    m_mutex,            \* "free", or "thread" while the background thread holds it
    t_gaze,             \* background thread: `gaze` (ipcThread), `unitVector` (ProcessMessage)
    t_now,              \* background thread: `now`
    wholeVec,           \* history: vector of the last sample whose store was completed
    stopped,            \* history: stop() has been called
    leftover,           \* history: cells at the head of `pending` sent for an earlier request
    staleRead,          \* history: `response` holds cells sent for an earlier request
    msgVerdict          \* history: what the last message given to ProcessMessage was

ctorVars == <<connRetries, connLog, hsSent, hsRetries, hsOffset, hsResponse, hsAttempts, hsReply>>
ipcVars == <<retries, offset, response, slept>>
oscVars == <<break_, breakEvent>>
cacheVars == <<m_latestGaze, m_lastReceivedTime>>
histVars == <<recVec, recTime, nRecorded, nReceived>>
queryVars == <<q_fn, q_pc, q_now, q_ret, unitVector>>
lockVars == <<m_mutex, t_gaze, t_now>>
markVars == <<wholeVec, stopped, leftover, staleRead, msgVerdict>>

vars == <<kind, c_pc, ctorVars, pending, m_started, m_socket, t_pc, ipcVars, oscVars,
          cacheVars, clock, queryVars, histVars, lockVars, markVars>>

\* The caller's vector before a getGaze call.
CallerVec == Vec(Fin(14), Fin(14), Fin(14))

Init ==
    /\ kind \in {"psvr2", "osc"}
    /\ c_pc = "ctor"
    /\ connRetries = 0
    /\ connLog = <<>>
    /\ hsSent = FALSE
    /\ hsRetries = 0
    /\ hsOffset = 0
    /\ hsResponse = <<>>
    /\ hsAttempts = 0
    /\ hsReply = <<>>
    /\ pending = <<>>
    /\ m_started = FALSE
    /\ m_socket = "INVALID_SOCKET"
    /\ t_pc = "none"
    /\ retries = 0
    /\ offset = 0
    /\ response = <<>>
    /\ slept = 0
    /\ break_ = FALSE
    /\ breakEvent = FALSE
    /\ m_latestGaze = ZeroVec
    /\ m_lastReceivedTime = 0
    /\ clock = 0
    /\ q_fn = "none"
    /\ q_pc = "idle"
    /\ q_now = 0
    /\ q_ret = FALSE
    /\ unitVector = CallerVec
    /\ recVec = ZeroVec
    /\ recTime = 0
    /\ nRecorded = 0
    /\ nReceived = 0
    /\ m_mutex = "free"
    /\ t_gaze = ZeroVec
    /\ t_now = 0
    /\ wholeVec = ZeroVec
    /\ stopped = FALSE
    /\ leftover = 0
    /\ staleRead = FALSE
    /\ msgVerdict = "none"

(***************************************************************************)
(* Psvr2ToolkitEyeTracker: constructor.                                    *)
(***************************************************************************)
ConnectOutcomes == {"ok", "WSAEISCONN", "failed"}

\* WSAStartup, socket(), ioctlsocket(FIONBIO); `retries = 15`.
Psvr2_Ctor_Open ==
    /\ kind = "psvr2"
    /\ c_pc = "ctor"
    /\ m_socket' = "open"
    /\ connRetries' = ConnectRetries
    /\ c_pc' = "connect"
    /\ UNCHANGED <<kind, connLog, hsSent, hsRetries, hsOffset, hsResponse, hsAttempts,
                   hsReply, pending, m_started, t_pc, ipcVars, oscVars, cacheVars,
                   clock, queryVars, histVars, lockVars, markVars>>

\* Variant: `retries--` is reached on the break as well.
ConnectRetriesAfter_Always(r, res) == r - 1

\* `retries` after one pass of the connect loop body whose connect() gave `res`.
ConnectRetriesAfter(r, res) ==
    IF res \in {"ok", "WSAEISCONN"} THEN r ELSE r - 1

\* The connect loop is left: by a break, or because `retries` reached 0.
ConnectLoopLeft(r, res) ==
    res \in {"ok", "WSAEISCONN"} \/ ConnectRetriesAfter(r, res) = 0

\* One pass of `while (retries) { connect ... Sleep(100); retries--; }`.
Psvr2_Ctor_Connect ==
    /\ kind = "psvr2"
    /\ c_pc = "connect"
    /\ connRetries > 0
    /\ \E res \in ConnectOutcomes :
        /\ connLog' = Append(connLog, res)
        /\ connRetries' = ConnectRetriesAfter(connRetries, res)
        /\ c_pc' = IF ConnectLoopLeft(connRetries, res) THEN "connect_check" ELSE "connect"
    /\ UNCHANGED <<kind, hsSent, hsRetries, hsOffset, hsResponse, hsAttempts, hsReply,
                   pending, m_started, m_socket, t_pc, ipcVars, oscVars, cacheVars,
                   clock, queryVars, histVars, lockVars, markVars>>

\* `if (!retries) throw EyeTrackerNotSupportedException();`
Psvr2_Ctor_ConnectCheck ==
    /\ kind = "psvr2"
    /\ c_pc = "connect_check"
    /\ c_pc' = IF connRetries = 0 THEN "throw" ELSE "handshake"
    /\ UNCHANGED <<kind, ctorVars, pending, m_started, m_socket, t_pc, ipcVars, oscVars,
                   cacheVars, clock, queryVars, histVars, lockVars, markVars>>

ZeroBuffer(n) == [i \in 1..n |-> ZeroCell]

\* send() of the handshake request; `response{}`, `retries = 5`, `offset = 0`.
\* The server answers with one handshake message, or with nothing.
Psvr2_Ctor_SendHandshake ==
    /\ kind = "psvr2"
    /\ c_pc = "handshake"
    /\ hsSent' = TRUE
    /\ \E reply \in HandshakeResponses \cup {<<>>} :
        /\ hsReply' = reply
        /\ pending' = pending \o reply
    /\ hsResponse' = ZeroBuffer(HsRespSize)
    /\ hsRetries' = HandshakeRetries
    /\ hsOffset' = 0
    /\ c_pc' = "hs_recv"
    /\ UNCHANGED <<kind, connRetries, connLog, hsAttempts, m_started, m_socket, t_pc,
                   ipcVars, oscVars, cacheVars, clock, queryVars, histVars, lockVars, markVars>>

\* `offset` after a recv() that returned n cells (n = 0: nothing or an error).
OffsetAfter(off, n) == IF n > 0 THEN off + n ELSE off

\* Variant: `retries--` is reached on the break as well.
RecvRetriesAfter_Always(r, off, size) == r - 1

\* `retries` after one pass of a receive loop body: unchanged on the break.
RecvRetriesAfter(r, off, size) == IF off >= size THEN r ELSE r - 1

\* The receive loop is left: by the break, or because `retries` reached 0.
RecvLoopLeft(r, off, size) == off >= size \/ RecvRetriesAfter(r, off, size) = 0

\* One pass of the handshake receive loop: recv() delivers the next n cells.
Psvr2_Ctor_Recv ==
    /\ kind = "psvr2"
    /\ c_pc = "hs_recv"
    /\ hsRetries > 0
    /\ \E n \in 0..Min(Len(pending), HsRespSize - hsOffset) :
        /\ hsResponse' = Fill(hsResponse, hsOffset, Take(pending, n))
        /\ pending' = Drop(pending, n)
        /\ hsOffset' = OffsetAfter(hsOffset, n)
        /\ hsRetries' = RecvRetriesAfter(hsRetries, hsOffset', HsRespSize)
        /\ c_pc' = IF RecvLoopLeft(hsRetries, hsOffset', HsRespSize)
                   THEN "hs_check" ELSE "hs_recv"
    /\ hsAttempts' = hsAttempts + 1
    /\ UNCHANGED <<kind, connRetries, connLog, hsSent, hsReply, m_started, m_socket,
                   t_pc, ipcVars, oscVars, cacheVars, clock, queryVars, histVars, lockVars, markVars>>

\* `!retries || response.header.type != Command_ServerHandshakeResult ||
\*  response.payload.result != HandshakeResult_Success`
HandshakeRejected(r, resp) ==
    \/ r = 0
    \/ resp[1].tag # "Command_ServerHandshakeResult"
    \/ resp[2].tag # "HandshakeResult_Success"

Psvr2_Ctor_HandshakeCheck ==
    /\ kind = "psvr2"
    /\ c_pc = "hs_check"
    /\ c_pc' = IF HandshakeRejected(hsRetries, hsResponse) THEN "throw" ELSE "constructed"
    /\ UNCHANGED <<kind, ctorVars, pending, m_started, m_socket, t_pc, ipcVars, oscVars,
                   cacheVars, clock, queryVars, histVars, lockVars, markVars>>

(***************************************************************************)
(* VRChatOSCEyeTracker: constructor. The member m_socket binds UDP port    *)
(* 9000; a failed bind throws out of the constructor.                      *)
(***************************************************************************)
Osc_Ctor ==
    /\ kind = "osc"
    /\ c_pc = "ctor"
    /\ \E bound \in BOOLEAN :
        /\ m_socket' = IF bound THEN "open" ELSE "INVALID_SOCKET"
        /\ c_pc' = IF bound THEN "constructed" ELSE "throw"
    /\ UNCHANGED <<kind, ctorVars, pending, m_started, t_pc, ipcVars, oscVars, cacheVars,
                   clock, queryVars, histVars, lockVars, markVars>>

\* The constructor returns and the factory hands out the tracker
\* (`return std::make_unique<...>()`): the constructor's locals go out of scope.
Ctor_Return ==
    /\ c_pc = "constructed"
    /\ c_pc' = "alive"
    /\ connRetries' = 0
    /\ connLog' = <<>>
    /\ hsSent' = FALSE
    /\ hsRetries' = 0
    /\ hsOffset' = 0
    /\ hsResponse' = <<>>
    /\ hsAttempts' = 0
    /\ hsReply' = <<>>
    /\ UNCHANGED <<kind, pending, m_started, m_socket, t_pc, ipcVars, oscVars, cacheVars,
                   clock, queryVars, histVars, lockVars, markVars>>

\* Variant: the factory lets the exception through.
Psvr2_Factory_Rethrow ==
    /\ kind = "psvr2"
    /\ c_pc = "throw"
    /\ c_pc' = "propagated"
    /\ UNCHANGED <<kind, ctorVars, pending, m_started, m_socket, t_pc, ipcVars, oscVars,
                   cacheVars, clock, queryVars, histVars, lockVars, markVars>>

\* createPsvr2ToolkitEyeTracker: `catch (...) { return {}; }`.
Psvr2_Factory_Catch ==
    /\ kind = "psvr2"
    /\ c_pc = "throw"
    /\ c_pc' = "no_tracker"
    /\ UNCHANGED <<kind, ctorVars, pending, m_started, m_socket, t_pc, ipcVars, oscVars,
                   cacheVars, clock, queryVars, histVars, lockVars, markVars>>

\* createVRChatOSCEyeTracker: `catch (...) { return {}; }`.
Osc_Factory_Catch ==
    /\ kind = "osc"
    /\ c_pc = "throw"
    /\ c_pc' = "no_tracker"
    /\ UNCHANGED <<kind, ctorVars, pending, m_started, m_socket, t_pc, ipcVars, oscVars,
                   cacheVars, clock, queryVars, histVars, lockVars, markVars>>

Constructor ==
    \/ Psvr2_Ctor_Open
    \/ Psvr2_Ctor_Connect
    \/ Psvr2_Ctor_ConnectCheck
    \/ Psvr2_Ctor_SendHandshake
    \/ Psvr2_Ctor_Recv
    \/ Psvr2_Ctor_HandshakeCheck
    \/ Osc_Ctor
    \/ Ctor_Return
    \/ Psvr2_Factory_Catch
    \/ Osc_Factory_Catch

(***************************************************************************)
(* The monotonic clock. Readings never decrease.                           *)
(***************************************************************************)
Readings == { c \in ClockPoints : c >= clock }

(***************************************************************************)
(* Psvr2ToolkitEyeTracker: start, stop, ipcThread, destructor.             *)
(***************************************************************************)
\* `m_started = true; m_listeningThread = std::thread(...)`. Calling start
\* twice is excluded by the caller.
Psvr2_start ==
    /\ kind = "psvr2"
    /\ c_pc = "alive"
    /\ ~m_started
    /\ m_started' = TRUE
    /\ t_pc' = "loop"
    /\ UNCHANGED <<kind, c_pc, ctorVars, pending, m_socket, ipcVars, oscVars, cacheVars,
                   clock, queryVars, histVars, lockVars, markVars>>

\* Variant: stop() tells the loop to end.
Psvr2_stop_Signals ==
    /\ kind = "psvr2"
    /\ c_pc = "alive"
    /\ stopped' = TRUE
    /\ m_started' = FALSE
    /\ UNCHANGED <<kind, c_pc, ctorVars, pending, m_socket, t_pc, ipcVars, oscVars,
                   cacheVars, clock, queryVars, histVars, lockVars, wholeVec, leftover,
                   staleRead, msgVerdict>>

\* `void stop() override {}`
Psvr2_stop ==
    /\ kind = "psvr2"
    /\ c_pc = "alive"
    /\ stopped' = TRUE
    /\ UNCHANGED <<kind, c_pc, ctorVars, pending, m_started, m_socket, t_pc, ipcVars, oscVars,
                   cacheVars, clock, queryVars, histVars, lockVars, wholeVec, leftover,
                   staleRead, msgVerdict>>

\* What the server may append to the stream on a gaze request: one reply,
\* or nothing.
ServerReplies ==
    IF m_socket = "open" /\ Len(pending) + GazeRespSize <= MaxPending
    THEN GazeResponses \cup {<<>>}
    ELSE {<<>>}

\* `while (m_started)`, then send() of the gaze request, `response{}`,
\* `retries = 5`, `offset = 0`.
Psvr2_ipcThread_Loop ==
    /\ kind = "psvr2"
    /\ t_pc = "loop"
    /\ IF m_started
       THEN /\ \E reply \in ServerReplies : pending' = pending \o reply
            /\ response' = ZeroBuffer(GazeRespSize)
            /\ retries' = GazeRetries
            /\ offset' = 0
            /\ slept' = 0
            /\ leftover' = Len(pending)
            /\ staleRead' = FALSE
            /\ t_pc' = "recv"
       ELSE /\ t_pc' = "exited"
            /\ UNCHANGED <<pending, ipcVars, leftover, staleRead>>
    /\ UNCHANGED <<kind, c_pc, ctorVars, m_started, m_socket, oscVars, cacheVars, clock,
                   queryVars, histVars, lockVars, wholeVec, stopped, msgVerdict>>

\* One pass of the receive loop of ipcThread; Sleep(1) unless it breaks.
Psvr2_ipcThread_Recv ==
    /\ kind = "psvr2"
    /\ t_pc = "recv"
    /\ retries > 0
    /\ \E n \in 0..(IF m_socket = "open" THEN Min(Len(pending), GazeRespSize - offset) ELSE 0) :
        /\ response' = Fill(response, offset, Take(pending, n))
        /\ pending' = Drop(pending, n)
        /\ offset' = OffsetAfter(offset, n)
        /\ retries' = RecvRetriesAfter(retries, offset', GazeRespSize)
        /\ slept' = IF offset' >= GazeRespSize THEN slept ELSE slept + 1
        /\ t_pc' = IF RecvLoopLeft(retries, offset', GazeRespSize) THEN "process" ELSE "recv"
        /\ leftover' = leftover - Min(n, leftover)
        /\ staleRead' = (staleRead \/ (n > 0 /\ leftover > 0))
    /\ UNCHANGED <<kind, c_pc, ctorVars, m_started, m_socket, oscVars, cacheVars, clock,
                   queryVars, histVars, lockVars, wholeVec, stopped, msgVerdict>>

\* "Average the poses from both eyes."
Psvr2_Gaze(resp) ==
    LET l == resp[2].dir
        r == resp[3].dir
    IN  Vec(FNeg(FHalf(FAdd(l.x, r.x))), FHalf(FAdd(l.y, r.y)), FNeg(FHalf(FAdd(l.z, r.z))))

\* `!(isnan(gaze.x) || isnan(gaze.y) || isnan(gaze.z))`
Psvr2_Storable(gaze) == ~(isnan(gaze.x) \/ isnan(gaze.y) \/ isnan(gaze.z))

\* a - b on unsigned int. A difference that wraps around is 2^32 - (b - a),
\* which is beyond the integers TLC handles: every wrapped value is
\* represented by UIntWrapped.
UIntWrapped == 2147483647
UIntSub(a, b) == IF a >= b THEN a - b ELSE UIntWrapped

\* Variant: `Sleep(5 - retries)`.
IterationDelay_Plain(r) == UIntSub(IterationSleep, r)

\* `Sleep(5 - (5 - retries))` on unsigned int.
IterationDelay(r) == UIntSub(IterationSleep, UIntSub(IterationSleep, r))

\* Variant: only the left eye's validity flag is looked at.
GazeAccepted_LeftOnly(r, resp) == r # 0 /\ resp[2].valid

\* `retries && leftEye.isGazeDirValid && rightEye.isGazeDirValid`
GazeAccepted(r, resp) == r # 0 /\ resp[2].valid /\ resp[3].valid

\* The first part of a copy of `from` into `to`: x is written, y and z are
\* not yet.
PartlyCopied(to, from) == Vec(from.x, to.y, to.z)

\* The end of an iteration: `Sleep(5 - (5 - retries))`; `response` and
\* `offset` go out of scope (`retries` keeps the last iteration's value).
IterationEnds ==
    /\ slept' = slept + IterationDelay(retries)
    /\ response' = <<>>
    /\ offset' = 0
    /\ staleRead' = FALSE
    /\ t_pc' = "loop"

\* After the receive loop: decode; for a sample to record, read the clock,
\* compute the vector, take the mutex and begin `m_latestGaze = gaze`;
\* otherwise sleep and go round.
Psvr2_ipcThread_Process ==
    /\ kind = "psvr2"
    /\ t_pc = "process"
    /\ IF GazeAccepted(retries, response)
       THEN \E now \in Readings :
            LET gaze == Psvr2_Gaze(response) IN
            /\ clock' = now
            /\ IF Psvr2_Storable(gaze)
               THEN /\ m_mutex = "free"
                    /\ m_mutex' = "thread"
                    /\ t_gaze' = gaze
                    /\ t_now' = now
                    /\ m_latestGaze' = PartlyCopied(m_latestGaze, gaze)
                    /\ t_pc' = "store"
                    /\ UNCHANGED <<m_lastReceivedTime, slept, offset, response, staleRead>>
               ELSE /\ IterationEnds
                    /\ UNCHANGED <<cacheVars, lockVars>>
       ELSE /\ IterationEnds
            /\ UNCHANGED <<clock, cacheVars, lockVars>>
    /\ UNCHANGED <<kind, c_pc, ctorVars, pending, m_started, m_socket, retries, oscVars,
                   queryVars, histVars, wholeVec, stopped, leftover, msgVerdict>>

\* Variant: the mutex is still held when the iteration sleeps and goes round.
Psvr2_ipcThread_Store_KeepsMutex ==
    /\ kind = "psvr2"
    /\ t_pc = "store"
    /\ m_latestGaze' = t_gaze
    /\ m_lastReceivedTime' = t_now
    /\ nReceived' = 1
    /\ wholeVec' = t_gaze
    /\ recVec' = t_gaze
    /\ recTime' = t_now
    /\ nRecorded' = 1
    /\ t_gaze' = ZeroVec
    /\ t_now' = 0
    /\ IterationEnds
    /\ UNCHANGED <<kind, c_pc, ctorVars, pending, m_started, m_socket, retries, oscVars,
                   clock, queryVars, m_mutex, stopped, leftover, msgVerdict>>

\* The rest of the critical section and of the iteration: the copy of the
\* vector is completed, `m_lastReceivedTime = now`, the mutex is released;
\* then the sleep.
Psvr2_ipcThread_Store ==
    /\ kind = "psvr2"
    /\ t_pc = "store"
    /\ m_latestGaze' = t_gaze
    /\ m_lastReceivedTime' = t_now
    /\ m_mutex' = "free"
    /\ nReceived' = 1
    /\ wholeVec' = t_gaze
    /\ IF ~VecHasNaN(t_gaze)
       THEN /\ recVec' = t_gaze
            /\ recTime' = t_now
            /\ nRecorded' = 1
       ELSE UNCHANGED <<recVec, recTime, nRecorded>>
    /\ t_gaze' = ZeroVec
    /\ t_now' = 0
    /\ IterationEnds
    /\ UNCHANGED <<kind, c_pc, ctorVars, pending, m_started, m_socket, retries, oscVars,
                   clock, queryVars, stopped, leftover, msgVerdict>>

ConsumerQuiet == q_pc \in {"idle", "returned"}

\* `if (m_started) { m_listeningThread.join(); }`: entered.
Psvr2_Dtor ==
    /\ kind = "psvr2"
    /\ c_pc = "alive"
    /\ ConsumerQuiet
    /\ c_pc' = IF m_started THEN "join" ELSE "close"
    /\ UNCHANGED <<kind, ctorVars, pending, m_started, m_socket, t_pc, ipcVars, oscVars,
                   cacheVars, clock, queryVars, histVars, lockVars, markVars>>

\* The rest of the destructor: join() returns once the thread function has
\* returned; then `if (m_socket != INVALID_SOCKET) { shutdown; closesocket;
\* m_socket = 0; }` and WSACleanup.
Psvr2_Dtor_JoinClose ==
    /\ kind = "psvr2"
    /\ c_pc \in {"join", "close"}
    /\ c_pc = "join" => t_pc = "exited"
    /\ m_socket' = IF m_socket # "INVALID_SOCKET" THEN "closed" ELSE m_socket
    /\ c_pc' = "destroyed"
    /\ UNCHANGED <<kind, ctorVars, pending, m_started, t_pc, ipcVars, oscVars, cacheVars,
                   clock, queryVars, histVars, lockVars, markVars>>

Psvr2_Lifetime ==
    \/ Psvr2_start
    \/ Psvr2_stop
    \/ Psvr2_ipcThread_Loop
    \/ Psvr2_ipcThread_Recv
    \/ Psvr2_ipcThread_Process
    \/ Psvr2_ipcThread_Store
    \/ Psvr2_Dtor
    \/ Psvr2_Dtor_JoinClose

(***************************************************************************)
(* Psvr2ToolkitEyeTracker: isGazeAvailable, getGaze (the consumer).        *)
(***************************************************************************)
\* `(now - m_lastReceivedTime).count() < 1'000'000'000`
Psvr2_Fresh(now, last) == now - last < FreshnessTicks

\* The function is entered: `now = high_resolution_clock::now()`. The
\* caller's vector holds the caller's own value.
Psvr2_Query_Now ==
    /\ kind = "psvr2"
    /\ c_pc = "alive"
    /\ ConsumerQuiet
    /\ \E fn \in {"isGazeAvailable", "getGaze"} : q_fn' = fn
    /\ \E now \in Readings :
        /\ q_now' = now
        /\ clock' = now
    /\ q_pc' = "check"
    /\ q_ret' = FALSE
    /\ unitVector' = CallerVec
    /\ UNCHANGED <<kind, c_pc, ctorVars, pending, m_started, m_socket, t_pc, ipcVars,
                   oscVars, cacheVars, histVars, lockVars, markVars>>

\* Variant: getGaze copies the vector before it looks at the result.
Psvr2_isGazeAvailable_CopiesFirst ==
    /\ kind = "psvr2"
    /\ q_pc = "check"
    /\ m_mutex = "free"
    /\ LET avail == Psvr2_Fresh(q_now, m_lastReceivedTime) IN
        IF q_fn = "getGaze" /\ avail
        THEN /\ q_pc' = "copy"
             /\ UNCHANGED q_ret
        ELSE /\ q_pc' = "returned"
             /\ q_ret' = avail
    /\ unitVector' = IF q_fn = "getGaze" THEN m_latestGaze ELSE unitVector
    /\ q_now' = 0
    /\ UNCHANGED <<kind, c_pc, ctorVars, pending, m_started, m_socket, t_pc, ipcVars,
                   oscVars, cacheVars, clock, q_fn, histVars, lockVars, markVars>>

\* isGazeAvailable under the mutex; getGaze returns false when it is false.
\* The local `now` is gone when isGazeAvailable returns.
Psvr2_isGazeAvailable ==
    /\ kind = "psvr2"
    /\ q_pc = "check"
    /\ m_mutex = "free"
    /\ LET avail == Psvr2_Fresh(q_now, m_lastReceivedTime) IN
        IF q_fn = "getGaze" /\ avail
        THEN /\ q_pc' = "copy"
             /\ UNCHANGED q_ret
        ELSE /\ q_pc' = "returned"
             /\ q_ret' = avail
    /\ q_now' = 0
    /\ UNCHANGED <<kind, c_pc, ctorVars, pending, m_started, m_socket, t_pc, ipcVars,
                   oscVars, cacheVars, clock, q_fn, unitVector, histVars, lockVars, markVars>>

\* Variant: the copy is made without the mutex.
Psvr2_getGaze_Unlocked ==
    /\ kind = "psvr2"
    /\ q_pc = "copy"
    /\ unitVector' = m_latestGaze
    /\ q_ret' = TRUE
    /\ q_pc' = "returned"
    /\ UNCHANGED <<kind, c_pc, ctorVars, pending, m_started, m_socket, t_pc, ipcVars,
                   oscVars, cacheVars, clock, q_fn, q_now, histVars, lockVars, markVars>>

\* `unitVector = m_latestGaze; return true;` under the mutex.
Psvr2_getGaze ==
    /\ kind = "psvr2"
    /\ q_pc = "copy"
    /\ m_mutex = "free"
    /\ unitVector' = m_latestGaze
    /\ q_ret' = TRUE
    /\ q_pc' = "returned"
    /\ UNCHANGED <<kind, c_pc, ctorVars, pending, m_started, m_socket, t_pc, ipcVars,
                   oscVars, cacheVars, clock, q_fn, q_now, histVars, lockVars, markVars>>

Psvr2_Consumer ==
    \/ Psvr2_Query_Now
    \/ Psvr2_isGazeAvailable
    \/ Psvr2_getGaze

(***************************************************************************)
(* UdpListeningReceiveSocket (oscpack): Run and AsynchronousBreak.         *)
(* Run clears the break flag, then waits for a datagram or for the break   *)
(* event; after every wake-up it leaves the loop if the break flag is set. *)
(* AsynchronousBreak sets the flag and signals the (auto-reset) event.     *)
(***************************************************************************)
Socket_AsynchronousBreak ==
    /\ break_' = TRUE
    /\ breakEvent' = TRUE

\* Run is entered: `break_ = false`.
Socket_Run_Enter ==
    /\ kind = "osc"
    /\ t_pc = "run"
    /\ break_' = FALSE
    /\ t_pc' = "wait"
    /\ UNCHANGED <<kind, c_pc, ctorVars, pending, m_started, m_socket, ipcVars, breakEvent,
                   cacheVars, clock, queryVars, histVars, lockVars, markVars>>

\* The wait returns on the break event, which resets it.
Socket_Run_WakeOnBreak ==
    /\ kind = "osc"
    /\ t_pc = "wait"
    /\ breakEvent
    /\ breakEvent' = FALSE
    /\ t_pc' = IF break_ THEN "exited" ELSE "wait"
    /\ UNCHANGED <<kind, c_pc, ctorVars, pending, m_started, m_socket, ipcVars, break_,
                   cacheVars, clock, queryVars, histVars, lockVars, markVars>>

(***************************************************************************)
(* VRChatOSCEyeTracker: start, stop, ProcessMessage, destructor.           *)
(***************************************************************************)
EyeAddress == "/tracking/eye/LeftRightPitchYaw"

FloatArg(f) == [type |-> "f", val |-> f]
IntArg == [type |-> "i", val |-> Fin(0)]

FloatArgs(a, b, c, d) == <<FloatArg(a), FloatArg(b), FloatArg(c), FloatArg(d)>>

\* With v at position i and 0 degrees elsewhere.
AngleAt(i, v) ==
    FloatArgs(IF i = 1 THEN v ELSE Fin(0), IF i = 2 THEN v ELSE Fin(0),
              IF i = 3 THEN v ELSE Fin(0), IF i = 4 THEN v ELSE Fin(0))

\* The argument lists a sender puts in a message: all angles 0; a yaw of
\* 90 degrees; a NaN or an infinity at one position; and four lists that do
\* not parse as four floats.
OscArgs ==
    { AngleAt(1, Fin(0)), AngleAt(2, Fin(180)) }
    \cup { AngleAt(i, NaN) : i \in 1..4 }
    \cup { AngleAt(i, PInf) : i \in 1..4 }
    \cup { <<FloatArg(Fin(0)), FloatArg(Fin(0)), FloatArg(Fin(0))>>,
           <<FloatArg(Fin(0)), FloatArg(Fin(0)), FloatArg(Fin(0)), FloatArg(Fin(0)),
             FloatArg(Fin(0))>>,
           <<FloatArg(Fin(0)), IntArg, FloatArg(Fin(0)), FloatArg(Fin(0))>>,
           <<>> }

OscMessages ==
    { [addr |-> EyeAddress, args |-> g] : g \in OscArgs }
    \cup { [addr |-> "/tracking/eye/EyesClosedAmount", args |-> g] :
             g \in {AngleAt(2, Fin(180)), <<FloatArg(Fin(0))>>} }

\* `args >> leftPitch >> leftYaw >> rightPitch >> rightYaw >> osc::EndMessage`
\* throws an osc::Exception on a missing, wrongly typed or excess argument.
Osc_Parses(args) == Len(args) = 4 /\ \A i \in 1..4 : args[i].type = "f"

\* The direction computed from the four angles.
Osc_UnitVector(leftPitch, leftYaw, rightPitch, rightYaw) ==
    LET sLP == SinDeg(FNeg(leftPitch))
        cLP == CosDeg(FNeg(leftPitch))
        sRP == SinDeg(FNeg(rightPitch))
        cRP == CosDeg(FNeg(rightPitch))
        sLY == SinDeg(leftYaw)
        cLY == CosDeg(leftYaw)
        sRY == SinDeg(rightYaw)
        cRY == CosDeg(rightYaw)
    IN  Vec(FHalf(FAdd(FMul(sLY, cLP), FMul(sRY, cRP))),
            FHalf(FAdd(sLP, sRP)),
            FHalf(FSub(FMul(FNeg(cLY), cLP), FMul(cRY, cRP))))

\* `!(isnan(leftPitch) || isnan(leftYaw) || isnan(rightPitch) || isnan(rightYaw))`
Osc_Storable(leftPitch, leftYaw, rightPitch, rightYaw) ==
    ~(isnan(leftPitch) \/ isnan(leftYaw) \/ isnan(rightPitch) \/ isnan(rightYaw))

\* What the `>>` chain throws on the argument list: the first argument
\* that is missing or is not a float, or an argument left over at
\* osc::EndMessage.
Osc_Thrown(args) ==
    IF \E i \in 1..4 : i > Len(args) \/ args[i].type # "f"
    THEN LET i == CHOOSE k \in 1..4 :
                    /\ k > Len(args) \/ args[k].type # "f"
                    /\ \A h \in 1..(k - 1) : h <= Len(args) /\ args[h].type = "f"
         IN  IF i > Len(args) THEN "MissingArgumentException"
             ELSE "WrongArgumentTypeException"
    ELSE IF Len(args) > 4 THEN "ExcessArgumentException"
    ELSE "none"

\* Variant: `catch (osc::WrongArgumentTypeException& e)`.
Osc_Catches_WrongTypeOnly(e) == e = "WrongArgumentTypeException"

\* `catch (osc::Exception& e)`: the exceptions of the argument stream all
\* derive from osc::Exception.
Osc_Catches(e) ==
    e \in {"MissingArgumentException", "WrongArgumentTypeException",
           "ExcessArgumentException"}

\* The message carries the eye address and exactly four floats, none NaN.
Osc_WellFormed(m) ==
    /\ m.addr = EyeAddress
    /\ Len(m.args) = 4
    /\ \A i \in 1..4 : m.args[i].type = "f" /\ m.args[i].val # NaN

\* ProcessMessage(m) up to the critical section: for a sample to record, the
\* mutex is taken and `m_latestGaze = unitVector` begins. An exception that
\* is not caught ends the thread.
Osc_ProcessMessage(m) ==
    /\ msgVerdict' = IF Osc_WellFormed(m) THEN "ok" ELSE "rejected"
    /\ IF m.addr = EyeAddress /\ Osc_Parses(m.args)
       THEN \E now \in Readings :
            LET leftPitch == m.args[1].val
                leftYaw == m.args[2].val
                rightPitch == m.args[3].val
                rightYaw == m.args[4].val
                vec == Osc_UnitVector(leftPitch, leftYaw, rightPitch, rightYaw)
            IN
            /\ clock' = now
            /\ IF Osc_Storable(leftPitch, leftYaw, rightPitch, rightYaw)
               THEN /\ m_mutex = "free"
                    /\ m_mutex' = "thread"
                    /\ t_gaze' = vec
                    /\ t_now' = now
                    /\ m_latestGaze' = PartlyCopied(m_latestGaze, vec)
                    /\ t_pc' = "store"
                    /\ UNCHANGED m_lastReceivedTime
               ELSE /\ t_pc' = "wait"
                    /\ UNCHANGED <<cacheVars, lockVars>>
       ELSE IF m.addr = EyeAddress
       THEN \E now \in Readings :
            /\ clock' = now
            /\ t_pc' = IF Osc_Catches(Osc_Thrown(m.args)) THEN "wait" ELSE "terminated"
            /\ UNCHANGED <<cacheVars, lockVars>>
       ELSE /\ t_pc' = "wait"
            /\ UNCHANGED <<clock, cacheVars, lockVars>>

\* The rest of the critical section of ProcessMessage: the copy of the
\* vector is completed, `m_lastReceivedTime = now`, the mutex is released;
\* ProcessMessage returns and Run waits again.
Osc_ProcessMessage_Store ==
    /\ kind = "osc"
    /\ t_pc = "store"
    /\ m_latestGaze' = t_gaze
    /\ m_lastReceivedTime' = t_now
    /\ m_mutex' = "free"
    /\ nReceived' = 1
    /\ wholeVec' = t_gaze
    /\ IF ~VecHasNaN(t_gaze)
       THEN /\ recVec' = t_gaze
            /\ recTime' = t_now
            /\ nRecorded' = 1
       ELSE UNCHANGED <<recVec, recTime, nRecorded>>
    /\ t_gaze' = ZeroVec
    /\ t_now' = 0
    /\ t_pc' = "wait"
    /\ UNCHANGED <<kind, c_pc, ctorVars, pending, m_started, m_socket, ipcVars, oscVars,
                   clock, queryVars, stopped, leftover, staleRead, msgVerdict>>

\* `m_listeningThread = std::thread([&]() { m_socket.Run(); }); m_started = true;`
Osc_start ==
    /\ kind = "osc"
    /\ c_pc = "alive"
    /\ ~m_started
    /\ t_pc' = "run"
    /\ m_started' = TRUE
    /\ UNCHANGED <<kind, c_pc, ctorVars, pending, m_socket, ipcVars, oscVars, cacheVars,
                   clock, queryVars, histVars, lockVars, markVars>>

\* `void stop() override {}`
Osc_stop ==
    /\ kind = "osc"
    /\ c_pc = "alive"
    /\ stopped' = TRUE
    /\ UNCHANGED <<kind, c_pc, ctorVars, pending, m_started, m_socket, t_pc, ipcVars, oscVars,
                   cacheVars, clock, queryVars, histVars, lockVars, wholeVec, leftover,
                   staleRead, msgVerdict>>

\* The wait returns on a datagram: Run leaves the loop if the break flag is
\* set, and otherwise hands the message to ProcessMessage.
Osc_Run_Receive ==
    /\ kind = "osc"
    /\ t_pc = "wait"
    /\ m_socket = "open"
    /\ IF break_
       THEN /\ t_pc' = "exited"
            /\ UNCHANGED <<clock, cacheVars, lockVars, msgVerdict>>
       ELSE \E m \in OscMessages : Osc_ProcessMessage(m)
    /\ UNCHANGED <<kind, c_pc, ctorVars, pending, m_started, m_socket, ipcVars, oscVars,
                   queryVars, histVars, wholeVec, stopped, leftover, staleRead>>

\* `if (m_started) { m_socket.AsynchronousBreak(); ...`
Osc_Dtor ==
    /\ kind = "osc"
    /\ c_pc = "alive"
    /\ ConsumerQuiet
    /\ IF m_started
       THEN /\ Socket_AsynchronousBreak
            /\ c_pc' = "join"
       ELSE /\ c_pc' = "members"
            /\ UNCHANGED oscVars
    /\ UNCHANGED <<kind, ctorVars, pending, m_started, m_socket, t_pc, ipcVars, cacheVars,
                   clock, queryVars, histVars, lockVars, markVars>>

\* Variant: the destructor goes on without waiting for the thread.
Osc_Dtor_Join_NoWait ==
    /\ kind = "osc"
    /\ c_pc = "join"
    /\ c_pc' = "members"
    /\ UNCHANGED <<kind, ctorVars, pending, m_started, m_socket, t_pc, ipcVars, oscVars,
                   cacheVars, clock, queryVars, histVars, lockVars, markVars>>

\* `m_listeningThread.join();`
Osc_Dtor_Join ==
    /\ kind = "osc"
    /\ c_pc = "join"
    /\ t_pc = "exited"
    /\ c_pc' = "members"
    /\ UNCHANGED <<kind, ctorVars, pending, m_started, m_socket, t_pc, ipcVars, oscVars,
                   cacheVars, clock, queryVars, histVars, lockVars, markVars>>

\* The destructor body is over: the members are destroyed, m_socket closes.
Osc_Dtor_Members ==
    /\ kind = "osc"
    /\ c_pc = "members"
    /\ m_socket' = "closed"
    /\ c_pc' = "destroyed"
    /\ UNCHANGED <<kind, ctorVars, pending, m_started, t_pc, ipcVars, oscVars, cacheVars,
                   clock, queryVars, histVars, lockVars, markVars>>

\* `(now - m_lastReceivedTime).count() < 1'000'000'000`
Osc_Fresh(now, last) == now - last < FreshnessTicks

\* The function is entered: `now = high_resolution_clock::now()`.
Osc_Query_Now ==
    /\ kind = "osc"
    /\ c_pc = "alive"
    /\ ConsumerQuiet
    /\ \E fn \in {"isGazeAvailable", "getGaze"} : q_fn' = fn
    /\ \E now \in Readings :
        /\ q_now' = now
        /\ clock' = now
    /\ q_pc' = "check"
    /\ q_ret' = FALSE
    /\ unitVector' = CallerVec
    /\ UNCHANGED <<kind, c_pc, ctorVars, pending, m_started, m_socket, t_pc, ipcVars,
                   oscVars, cacheVars, histVars, lockVars, markVars>>

\* isGazeAvailable under the mutex; getGaze returns false when it is false.
\* The local `now` is gone when isGazeAvailable returns.
Osc_isGazeAvailable ==
    /\ kind = "osc"
    /\ q_pc = "check"
    /\ m_mutex = "free"
    /\ LET avail == Osc_Fresh(q_now, m_lastReceivedTime) IN
        IF q_fn = "getGaze" /\ avail
        THEN /\ q_pc' = "copy"
             /\ UNCHANGED q_ret
        ELSE /\ q_pc' = "returned"
             /\ q_ret' = avail
    /\ q_now' = 0
    /\ UNCHANGED <<kind, c_pc, ctorVars, pending, m_started, m_socket, t_pc, ipcVars,
                   oscVars, cacheVars, clock, q_fn, unitVector, histVars, lockVars, markVars>>

\* `unitVector = m_latestGaze; return true;` under the mutex.
Osc_getGaze ==
    /\ kind = "osc"
    /\ q_pc = "copy"
    /\ m_mutex = "free"
    /\ unitVector' = m_latestGaze
    /\ q_ret' = TRUE
    /\ q_pc' = "returned"
    /\ UNCHANGED <<kind, c_pc, ctorVars, pending, m_started, m_socket, t_pc, ipcVars,
                   oscVars, cacheVars, clock, q_fn, q_now, histVars, lockVars, markVars>>

Osc_Lifetime ==
    \/ Osc_start
    \/ Osc_stop
    \/ Socket_Run_Enter
    \/ Socket_Run_WakeOnBreak
    \/ Osc_Run_Receive
    \/ Osc_ProcessMessage_Store
    \/ Osc_Dtor
    \/ Osc_Dtor_Join
    \/ Osc_Dtor_Members

Osc_Consumer ==
    \/ Osc_Query_Now
    \/ Osc_isGazeAvailable
    \/ Osc_getGaze

Next == Constructor \/ Psvr2_Lifetime \/ Psvr2_Consumer \/ Osc_Lifetime \/ Osc_Consumer

Spec == Init /\ [][Next]_vars

(***************************************************************************)
(* Scheduling. A thread that can take a step eventually takes it: the      *)
(* background thread runs whenever it is not blocked, and a destructor     *)
(* that was entered goes on whenever it is not blocked. Nothing is assumed *)
(* of the environment: no datagram need ever arrive, the server need       *)
(* never answer, and the owner need never start or destroy the tracker.    *)
(***************************************************************************)
Psvr2_ipcThread ==
    \/ Psvr2_ipcThread_Loop
    \/ Psvr2_ipcThread_Recv
    \/ Psvr2_ipcThread_Process
    \/ Psvr2_ipcThread_Store

FairSpec ==
    /\ Spec
    /\ WF_vars(Psvr2_ipcThread)
    /\ WF_vars(Psvr2_Dtor_JoinClose)
    /\ WF_vars(Socket_Run_Enter)
    /\ WF_vars(Socket_Run_WakeOnBreak)
    /\ WF_vars(Osc_ProcessMessage_Store)
    /\ WF_vars(Osc_Dtor_Join)
    /\ WF_vars(Osc_Dtor_Members)

(***************************************************************************)
(* Properties.                                                             *)
(***************************************************************************)

\* C1: once the destructor of a started device tracker waits in join(), it
\* eventually completes (the background loop exits and the join returns),
\* whatever the server does.
Psvr2_DtorTerminates ==
    (kind = "psvr2" /\ c_pc = "join") ~> (c_pc = "destroyed")

\* C2: while the destructor of the device tracker is at the join, the stop
\* signal has been given (m_started is false) and the socket has already
\* been shut down and closed: the shutdown precedes the join.
Psvr2_ShutdownBeforeJoin ==
    (kind = "psvr2" /\ c_pc = "join") => (~m_started /\ m_socket = "closed")

ThreadNeverOutlivesInstance ==
    (m_socket = "closed" \/ c_pc = "destroyed") => t_pc \in {"none", "exited"}

\* C4 witness: a network tracker was started and is destroyed, its thread
\* having exited.
DestroyedAfterStart ==
    kind = "osc" /\ m_started /\ c_pc = "destroyed" /\ t_pc = "exited"

\* C5: once a sample with no NaN has been recorded, a query reports
\* available exactly when its `now` minus the timestamp of the most recent
\* such sample is below one second, and getGaze, when it returns true,
\* returns the vector of the most recent such sample.
FreshestSampleReturned ==
    [][ /\ (q_pc = "check" /\ q_pc' # "check" /\ nRecorded = 1) =>
              ((q_pc' = "copy" \/ q_ret') <=> (q_now - recTime < FreshnessTicks))
        /\ (q_pc = "copy" /\ q_pc' = "returned" /\ nRecorded = 1) =>
              (q_ret' /\ unitVector' = recVec) ]_vars

\* C6: a query on a tracker whose cache never received a sample returns
\* false, whatever the clock reads.
NeverSampledUnavailable ==
    (nReceived = 0 /\ q_pc = "returned") => ~q_ret

\* C7: the stored gaze vector never has a NaN component.
NoNaNStored == ~VecHasNaN(m_latestGaze)

\* The state of the tracker: everything but the clock, the consumer's own
\* variables and the history.
trackerState ==
    <<kind, c_pc, ctorVars, pending, m_started, m_socket, t_pc, ipcVars, oscVars, cacheVars>>

\* C8: a step of isGazeAvailable or getGaze changes no tracker state; when
\* gaze is unavailable getGaze returns false with the caller's vector as it
\* was; when getGaze returns true the caller's vector is the stored vector.
GetGazeFrame ==
    [][ (q_pc \in {"check", "copy"} /\ q_pc' # q_pc) =>
          /\ UNCHANGED trackerState
          /\ (q_pc = "check" /\ q_fn = "getGaze" /\
              ~(q_now - m_lastReceivedTime < FreshnessTicks)) =>
                 (q_pc' = "returned" /\ ~q_ret')
          /\ (q_fn = "getGaze" /\ q_pc' = "returned" /\ ~q_ret') =>
                 unitVector' = unitVector
          /\ (q_fn = "getGaze" /\ q_pc' = "returned" /\ q_ret') =>
                 unitVector' = m_latestGaze
          /\ q_pc' = "copy" => unitVector' = unitVector ]_vars

\* C8 witness: getGaze has returned false on a cache whose sample went
\* stale, the caller's vector untouched.
GetGazeReturnedFalse ==
    /\ q_pc = "returned" /\ q_fn = "getGaze" /\ ~q_ret
    /\ nReceived = 1 /\ unitVector = CallerVec

\* The server's whole handshake reply was read, within the attempts allowed.
HandshakeAccumulated ==
    /\ Len(hsReply) = HsRespSize
    /\ pending = <<>>
    /\ hsAttempts <= HandshakeRetries

\* C9: after a successful connect the constructor succeeds exactly when the
\* whole handshake reply was accumulated within 5 receive attempts, its
\* type is the handshake-result type and its result code is success; in
\* every other case it throws.
HandshakeDecides ==
    (kind = "psvr2" /\ hsSent /\ c_pc \in {"constructed", "throw"}) =>
        (c_pc = "constructed" <=>
            /\ HandshakeAccumulated
            /\ hsReply[1].tag = "Command_ServerHandshakeResult"
            /\ hsReply[2].tag = "HandshakeResult_Success")

\* C9 witness: construction succeeded with the reply completed by the 5th
\* receive attempt.
ConstructedOnLastAttempt ==
    kind = "psvr2" /\ c_pc = "constructed" /\ hsAttempts = HandshakeRetries

AllFailed(log) == \A i \in 1..Len(log) : log[i] = "failed"

\* C10: the connect loop makes at most 15 attempts, none after the first
\* that returns success or WSAEISCONN; the constructor throws without
\* sending the handshake exactly when all 15 attempts failed.
ConnectDecides ==
    (kind = "psvr2" /\ c_pc \in {"connect_check", "handshake", "hs_recv", "hs_check",
                                 "constructed", "throw"}) =>
        /\ Len(connLog) \in 1..ConnectRetries
        /\ AllFailed(Take(connLog, Len(connLog) - 1))
        /\ AllFailed(connLog) => Len(connLog) = ConnectRetries
        /\ c_pc # "connect_check" => ((c_pc = "throw" /\ ~hsSent) <=> AllFailed(connLog))

\* C10 witness: the 15th connect attempt succeeded and construction went on
\* to the handshake.
ConnectedOnLastAttempt ==
    /\ kind = "psvr2" /\ c_pc = "handshake"
    /\ Len(connLog) = ConnectRetries
    /\ connLog[ConnectRetries] \in {"ok", "WSAEISCONN"}

\* The construction of the tracker succeeded: the device server was
\* connected and accepted the handshake; the UDP endpoint was bound.
ConstructionSucceeded ==
    IF kind = "psvr2"
    THEN /\ ~AllFailed(connLog)
         /\ HandshakeAccumulated
         /\ hsReply[1].tag = "Command_ServerHandshakeResult"
         /\ hsReply[2].tag = "HandshakeResult_Success"
    ELSE m_socket = "open"

\* C11: the factory never lets a failure through: every step that ends a
\* construction hands out a tracker if the construction succeeded and "no
\* tracker" if it failed.
FactoryNeverPropagates ==
    [][ (c_pc \in {"constructed", "throw"} /\ c_pc' # c_pc) =>
          /\ c_pc' \in {"alive", "no_tracker"}
          /\ c_pc' = "alive" <=> ConstructionSucceeded ]_vars

\* C11 witness: the device factory returned no tracker after a rejected
\* handshake.
NoTrackerAfterHandshake ==
    kind = "psvr2" /\ c_pc = "no_tracker" /\ hsSent

\* C19: when the construction of the device tracker has failed, the socket
\* the constructor opened is closed.
FailedConstructionClosesSocket ==
    (kind = "psvr2" /\ c_pc \in {"throw", "no_tracker"}) => m_socket # "open"

\* C17: whatever the receive attempts of an iteration gave, the delay that
\* ends the iteration lies in 0..5 (no unsigned wrap-around) and the sleeps
\* of the iteration add up to 5 ms.
PacingFixed ==
    [][ (kind = "psvr2" /\ t_pc \notin {"none", "loop"} /\ t_pc' = "loop") =>
          /\ slept' - slept \in 0..IterationSleep
          /\ slept' - slept = IterationDelay(retries)
          /\ slept' = IterationSleep ]_vars

\* C17 witness: an iteration that used up all its receive attempts is over.
ExhaustedIterationOver ==
    kind = "psvr2" /\ t_pc = "loop" /\ retries = 0 /\ slept = IterationSleep

\* C12: an iteration of the device loop whose response was not read
\* completely, or has a per-eye validity flag clear, leaves the stored
\* vector and timestamp as they were and goes round; the loop sends the next
\* request as long as m_started is set; and the last recorded sample is
\* available exactly while it is less than one second old.
SkippedIterationKeepsSample ==
    [][ kind = "psvr2" =>
          /\ (/\ t_pc = "process"
              /\ t_pc' # "process"
              /\ \/ offset < GazeRespSize
                 \/ ~response[2].valid
                 \/ ~response[3].valid)
             => (UNCHANGED cacheVars /\ t_pc' = "loop")
          /\ (t_pc = "loop" /\ t_pc' # "loop" /\ m_started) => t_pc' = "recv"
          /\ (q_pc = "check" /\ q_pc' # "check" /\ nRecorded = 1)
             => ((q_pc' = "copy" \/ q_ret') <=> (q_now - recTime < FreshnessTicks)) ]_vars

\* C12 witness: after a sample was recorded, an iteration gave up with its
\* receive attempts used up, and the cache still holds the sample.
GaveUpAfterSample ==
    /\ kind = "psvr2"
    /\ t_pc = "loop"
    /\ retries = 0
    /\ nRecorded = 1
    /\ m_latestGaze = recVec
    /\ m_lastReceivedTime = recTime

\* C13: ProcessMessage begins an update of the cache only for a message with
\* the eye address and exactly four floats, none NaN; any other message
\* leaves vector and timestamp as they were; no exception leaves
\* ProcessMessage, and Run waits for the next datagram.
OnlyWellFormedMessagesStored ==
    [][ kind = "osc" =>
          /\ (t_pc = "wait" /\ t_pc' = "store") => msgVerdict' = "ok"
          /\ (t_pc = "wait" /\ msgVerdict' = "rejected")
             => (UNCHANGED cacheVars /\ t_pc' \in {"wait", "exited"})
          /\ t_pc' # "terminated" ]_vars

\* C13 witness: after a sample was stored, the last message was one that
\* ProcessMessage does not take, and the cache still holds the sample.
RejectedAfterSample ==
    /\ kind = "osc"
    /\ t_pc = "wait"
    /\ msgVerdict = "rejected"
    /\ nReceived = 1
    /\ m_latestGaze = wholeVec

\* C14: the background thread holds the mutex only inside the copy of
\* vector and timestamp, never at a send, receive, sleep or parsing step,
\* and its next step after taking the mutex releases it: a consumer waits
\* for at most one step of the background thread.
MutexOnlyWhileCopying ==
    /\ [](m_mutex = "thread" => t_pc = "store")
    /\ [][ (m_mutex = "thread" /\ t_pc' # t_pc) => m_mutex' = "free" ]_vars

\* C14 witness: a consumer call is at its freshness check while the device
\* thread holds the mutex.
ConsumerMeetsWriter ==
    kind = "psvr2" /\ m_mutex = "thread" /\ q_pc = "check"

\* C15: once a sample has been stored, the vector getGaze hands to the
\* caller is the vector of the last sample stored completely: all three
\* components are of the same sample.
GetGazeReturnsWholeSample ==
    [][ (q_pc = "copy" /\ q_pc' = "returned" /\ nReceived = 1) =>
          unitVector' = wholeVec ]_vars

\* C15 witness: between the freshness check and the copy of a getGaze call,
\* the device thread is in the middle of storing a sample that differs from
\* the one in the cache.
WriterBetweenCheckAndCopy ==
    /\ kind = "psvr2"
    /\ q_pc = "copy"
    /\ t_pc = "store"
    /\ nReceived = 1
    /\ m_latestGaze # wholeVec
    /\ m_latestGaze # t_gaze

\* C16: a call of stop() changes nothing of the tracker (started flag,
\* thread, socket, stream, cache, mutex); the thread ends and the socket is
\* closed in the destructor only.
StopChangesNothing ==
    [][ /\ (stopped' /\ ~stopped)
           => UNCHANGED <<m_started, t_pc, m_socket, pending, ipcVars, oscVars,
                          cacheVars, lockVars>>
        /\ (t_pc' = "exited" /\ t_pc # "exited") => c_pc = "join"
        /\ (m_socket' = "closed" /\ m_socket # "closed") => c_pc' = "destroyed" ]_vars

\* C16 witness: stop() has been called and the device thread is storing a
\* sample.
RecordingAfterStop ==
    kind = "psvr2" /\ stopped /\ m_started /\ t_pc = "store" /\ c_pc = "alive"

\* C18: a sample the device loop records is decoded from cells that were all
\* sent in answer to the request of that iteration.
EachSampleFromOwnReply ==
    [][ (kind = "psvr2" /\ t_pc = "process" /\ t_pc' = "store") => ~staleRead ]_vars

\* C20: a completely read response whose header is not of the gaze data
\* result type leaves the stored vector and timestamp as they were.
OnlyGazeTypeRecorded ==
    [][ (/\ kind = "psvr2"
         /\ t_pc = "process"
         /\ offset >= GazeRespSize
         /\ response[1].tag # "Command_ServerGazeDataResult")
        => UNCHANGED cacheVars ]_vars

====
